---- MODULE Spec2Model ----
(***************************************************************************)
(* Gesture-controlled Snake: the game engine (snake_game.py), the gesture  *)
(* interpreter (gesture_control.py) and the parts of the main loop         *)
(* (main.py) that drive them.                                              *)
(*                                                                         *)
(* Cells are pairs <<x, y>>.  Directions are the names of the Direction    *)
(* enum.  Particle velocities are random floats used only for drawing;     *)
(* the particles one call adds share spawn pixel, life, max_life and       *)
(* colour, and are kept as one record with their number (count).           *)
(***************************************************************************)
EXTENDS Integers, Sequences, FiniteSets, TLC

VARIABLES
    \* ---- SnakeGame fields
    width, height, grid_width, grid_height,
    snake, direction, next_direction,
    score, high_score, last_power_up_score,
    game_over, paused, wrap_around, speed_boost,
    fruit, power_ups, particles, transition_particles,
    \* ---- content of high_score.json
    high_score_file,
    \* ---- GestureControl fields; positions are kept times Unit, None is << >>
    \* ---- for a position and "NONE" for a direction
    previous_position, position_history, current_direction,
    gesture_cooldown, no_hand_frames, last_confidence,
    \* ---- what the last call of detect_gestures returned
    detected,
    \* ---- the last operation called, with its argument, and the number of
    \* ---- update() ticks that moved the game so far
    call, ticks,
    \* ---- the frames in which the detector found no hand since it last
    \* ---- found one, counted up to max_no_hand_frames + 1
    missed,
    \* ---- the VIDEORESIZE events taken so far, where they are bounded
    resizes,
    \* ---- DualViewSnakeGame fields: the size of the window, the loop flag,
    \* ---- the camera ("NONE", "OPEN", "RELEASED"), the detector
    \* ---- ("OPEN", "CLOSED"), the holder of frame_lock ("FREE", "MAIN",
    \* ---- "WORKER") and the shared slot; annotated_frame is the number of
    \* ---- the camera frame it was drawn on, 0 for None
    screen, running, cap, hands, frame_lock,
    current_gesture, is_pinching, annotated_frame,
    \* ---- the two threads: where each stands, and its locals (the snapshot
    \* ---- of run, the result of detect_gestures in gesture_detection_loop)
    main_pc, worker_pc, snapshot, inference,
    \* ---- the camera frames read so far, and the triple of the last
    \* ---- publish that was completed
    frames, published

gameVars == <<width, height, grid_width, grid_height, snake, direction,
              next_direction, score, high_score, last_power_up_score,
              game_over, paused, wrap_around, speed_boost, fruit, power_ups,
              particles, transition_particles, high_score_file>>

gestureVars == <<previous_position, position_history, current_direction,
                 gesture_cooldown, no_hand_frames, last_confidence, detected>>

appVars == <<screen, running, cap, hands, frame_lock, current_gesture,
             is_pinching, annotated_frame, main_pc, worker_pc, snapshot,
             inference, frames, published>>

vars == <<gameVars, gestureVars, appVars, call, ticks, missed, resizes>>

-----------------------------------------------------------------------------
(* Bounds of the exploration *)

\* update() ticks explored
MaxTicks == 2

\* update() ticks explored when only directions are requested
MaxMoveTicks == 4

\* update() ticks explored in a run of meals
MaxMealTicks == 7

-----------------------------------------------------------------------------
(* Program constants *)

grid_size == 20
MinGrid == 4
FruitPoints == 10
PowerUpPoints == 20
PowerUpGap == 30
PowerUpLifespan == 200
ParticleCount == 12
ParticleLife == 40
TrailCount == 8
wrap_transition_frames == 3

\* window sizes given to SnakeGame(width, height)
GameSizes == { <<80, 80>> }

\* high_score.json: missing, corrupt (anything json.load or int() fails on,
\* or an object without the key), or the object json.dump wrote, its
\* high_score kept as the decimal digits of the text. What the file may
\* hold when the game is constructed:
StoredFiles == { [state |-> "missing", high_score |-> << >>],
                 [state |-> "json", high_score |-> <<1, 0>>] }

Directions == { "UP", "DOWN", "LEFT", "RIGHT" }

\* Direction.value
DirVec(d) ==
    CASE d = "UP"    -> <<0, -1>>
      [] d = "DOWN"  -> <<0, 1>>
      [] d = "LEFT"  -> <<-1, 0>>
      [] d = "RIGHT" -> <<1, 0>>

\* the `opposite` table of change_direction
Opposite(d) ==
    CASE d = "UP"    -> "DOWN"
      [] d = "DOWN"  -> "UP"
      [] d = "LEFT"  -> "RIGHT"
      [] d = "RIGHT" -> "LEFT"

Max(a, b) == IF a >= b THEN a ELSE b

\* max(4, pixels // grid_size)
GridOf(pixels) == Max(MinGrid, pixels \div grid_size)

Cells(gw, gh) == (0 .. gw - 1) \X (0 .. gh - 1)

\* (x, y) in self.snake
InSnake(c, snk) == \E i \in 1 .. Len(snk) : snk[i] = c

\* any((x, y) == p['pos'] for p in self.power_ups)
OnPowerUp(c, pus) == \E i \in 1 .. Len(pus) : pus[i].pos = c

-----------------------------------------------------------------------------
(* Score persistence *)

\* the decimal digits json.dump writes for a non-negative integer
RECURSIVE Digits(_)
Digits(n) == IF n < 10 THEN <<n>> ELSE Append(Digits(n \div 10), n % 10)

\* the integer json.load reads from decimal digits
RECURSIVE Number(_)
Number(ds) ==
    IF ds = << >> THEN 0
    ELSE 10 * Number(SubSeq(ds, 1, Len(ds) - 1)) + ds[Len(ds)]

\* load_high_score reading another key than the one that was written
load_high_score_default(file) == 0

\* load_high_score: 0 when the file is missing or cannot be read
load_high_score(file) ==
    IF file.state = "json" THEN Number(file.high_score) ELSE 0

-----------------------------------------------------------------------------
(* Effects *)

\* add_particle_effect: twelve particles at the centre of the cell
add_particle_effect(x, y, color) ==
    << [x |-> x * grid_size + grid_size \div 2,
        y |-> y * grid_size + grid_size \div 2,
        life |-> ParticleLife, max_life |-> ParticleLife, color |-> color,
        count |-> ParticleCount] >>

\* _add_transition_trail: eight short-lived particles at the wrap point
add_transition_trail(gx, gy) ==
    << [x |-> gx * grid_size + grid_size \div 2,
        y |-> gy * grid_size + grid_size \div 2,
        life |-> wrap_transition_frames,
        max_life |-> wrap_transition_frames, color |-> "TRAIL",
        count |-> TrailCount] >>

\* the bursts of the n power-ups eaten on cell h
PowerUpBursts(n, h) ==
    [i \in 1 .. n |-> add_particle_effect(h[1], h[2], "YELLOW")[1]]

IsAlive(p) == p.life > 0

\* update_particles: every particle loses one life, the dead are removed
update_particles(ps) ==
    SelectSeq([i \in 1 .. Len(ps) |-> [ps[i] EXCEPT !.life = @ - 1]], IsAlive)

IsActive(pu) == pu.lifespan > 0

\* update_power_ups: every power-up loses one tick, the expired are removed
update_power_ups(pus) ==
    SelectSeq([i \in 1 .. Len(pus) |-> [pus[i] EXCEPT !.lifespan = @ - 1]],
              IsActive)

-----------------------------------------------------------------------------
(* Spawning *)

\* cells the search of spawn_fruit can end on
FruitCellsOffPowerUps(snk, pus, gw, gh) ==
    { c \in Cells(gw, gh) : ~OnPowerUp(c, pus) }

FruitCells(snk, pus, gw, gh) ==
    { c \in Cells(gw, gh) : ~InSnake(c, snk) /\ ~OnPowerUp(c, pus) }

\* cells off the snake, the fruit cell among them
PowerUpCellsOffSnake(snk, f, gw, gh) ==
    { c \in Cells(gw, gh) : ~InSnake(c, snk) }

\* cells the search of spawn_power_up can end on
PowerUpCells(snk, f, gw, gh) ==
    { c \in Cells(gw, gh) : ~InSnake(c, snk) /\ c # f }

\* spawn_power_up: one more star
spawn_power_up(pus, c) ==
    Append(pus, [pos |-> c, type |-> "star", lifespan |-> PowerUpLifespan])

\* spawn_fruit: the results of one call, over every outcome of the random
\* draws (the fruit cell, the 10% draw, the power-up cell)
spawn_fruit(snk, pus, sc, last, gw, gh) ==
    { [fruit |-> f, power_ups |-> pus, last_power_up_score |-> last] :
        f \in FruitCells(snk, pus, gw, gh) }
    \cup
    IF sc - last >= PowerUpGap
    THEN UNION { { [fruit |-> f, power_ups |-> spawn_power_up(pus, c),
                    last_power_up_score |-> sc] :
                     c \in PowerUpCells(snk, f, gw, gh) } :
                 f \in FruitCells(snk, pus, gw, gh) }
    ELSE {}

-----------------------------------------------------------------------------
(* reset_game *)

SeedSnake(gw, gh) ==
    << <<gw \div 2, gh \div 2>>, <<gw \div 2 - 1, gh \div 2>>,
       <<gw \div 2 - 2, gh \div 2>> >>

\* reset_game: the grid is recomputed from the window, the snake re-seeded,
\* the fruit respawned; high_score and last_power_up_score are kept
reset_game ==
    LET gw == GridOf(width)
        gh == GridOf(height)
    IN  /\ grid_width' = gw
        /\ grid_height' = gh
        /\ snake' = SeedSnake(gw, gh)
        /\ direction' = "RIGHT"
        /\ next_direction' = "RIGHT"
        /\ score' = 0
        /\ game_over' = FALSE
        /\ speed_boost' = FALSE
        /\ particles' = << >>
        /\ transition_particles' = << >>
        /\ paused' = FALSE
        /\ \E r \in spawn_fruit(SeedSnake(gw, gh), << >>, 0,
                                last_power_up_score, gw, gh) :
              /\ fruit' = r.fruit
              /\ power_ups' = r.power_ups
              /\ last_power_up_score' = r.last_power_up_score
        /\ UNCHANGED <<width, height, high_score, wrap_around, high_score_file>>

\* SnakeGame.__init__ for a surface of size sz
GameInitAt(sz) ==
    /\ width = sz[1]
    /\ height = sz[2]
    /\ grid_width = GridOf(sz[1])
    /\ grid_height = GridOf(sz[2])
    /\ snake = SeedSnake(GridOf(sz[1]), GridOf(sz[2]))
    /\ fruit \in FruitCells(SeedSnake(GridOf(sz[1]), GridOf(sz[2])),
                            << >>, GridOf(sz[1]), GridOf(sz[2]))
    /\ high_score_file \in StoredFiles
    /\ high_score = load_high_score(high_score_file)
    /\ direction = "RIGHT"
    /\ next_direction = "RIGHT"
    /\ score = 0
    /\ last_power_up_score = 0
    /\ game_over = FALSE
    /\ paused = FALSE
    /\ wrap_around = TRUE
    /\ speed_boost = FALSE
    /\ power_ups = << >>
    /\ particles = << >>
    /\ transition_particles = << >>
    /\ call = <<"__init__">>
    /\ ticks = 0
    /\ resizes = 0

\* SnakeGame(width, height) constructed on its own
GameInit == \E sz \in GameSizes : GameInitAt(sz)

-----------------------------------------------------------------------------
(* Operations of SnakeGame *)

\* save_high_score: json.dump of the integer
save_high_score(hs) == [state |-> "json", high_score |-> Digits(hs)]

\* the early return of update and change_direction
FrozenGameOverOnly == game_over

Frozen == game_over \/ paused

\* change_direction without its reversal test
RejectedNever(new_dir) == FALSE

\* the reversal test of change_direction, against the active direction
RejectedAgainstQueued(new_dir) == new_dir = Opposite(next_direction)

Rejected(new_dir) == new_dir = Opposite(direction)

\* change_direction: ignored when frozen, for an unknown name and for the
\* opposite of the active direction
change_direction(new_direction) ==
    /\ call' = <<"change_direction", new_direction>>
    /\ IF Frozen
       THEN UNCHANGED next_direction
       ELSE IF new_direction \in Directions /\ ~Rejected(new_direction)
            THEN next_direction' = new_direction
            ELSE UNCHANGED next_direction
    /\ UNCHANGED <<width, height, grid_width, grid_height, snake, direction,
                   score, high_score, last_power_up_score, game_over, paused,
                   wrap_around, speed_boost, fruit, power_ups, particles,
                   transition_particles, high_score_file, ticks>>

toggle_pause ==
    /\ call' = <<"toggle_pause">>
    /\ paused' = ~paused
    /\ UNCHANGED <<width, height, grid_width, grid_height, snake, direction,
                   next_direction, score, high_score, last_power_up_score,
                   game_over, wrap_around, speed_boost, fruit, power_ups,
                   particles, transition_particles, high_score_file, ticks>>

toggle_wrap ==
    /\ call' = <<"toggle_wrap">>
    /\ wrap_around' = ~wrap_around
    /\ UNCHANGED <<width, height, grid_width, grid_height, snake, direction,
                   next_direction, score, high_score, last_power_up_score,
                   game_over, paused, speed_boost, fruit, power_ups,
                   particles, transition_particles, high_score_file, ticks>>

\* the test of handle_restart
RestartsOnAnyGesture(gesture) == game_over /\ gesture \in Directions

Restarts(gesture) == game_over /\ gesture = "UP"

\* handle_restart: a reset when the game is over and the gesture is "UP"
handle_restart(gesture) ==
    /\ call' = <<"handle_restart", gesture>>
    /\ UNCHANGED ticks
    /\ IF Restarts(gesture)
       THEN reset_game
       ELSE UNCHANGED gameVars

\* the head plus the vector of the committed direction
Moved ==
    <<snake[1][1] + DirVec(next_direction)[1],
      snake[1][2] + DirVec(next_direction)[2]>>

\* the wrap-around branch of update: an if/elif chain, one axis at most
WrapHeadSameEdge(h, gw, gh) ==
    IF h[1] < 0 THEN <<0, h[2]>>
    ELSE IF h[1] >= gw THEN <<gw - 1, h[2]>>
    ELSE IF h[2] < 0 THEN <<h[1], 0>>
    ELSE IF h[2] >= gh THEN <<h[1], gh - 1>>
    ELSE h

WrapHead(h, gw, gh) ==
    IF h[1] < 0 THEN <<gw - 1, h[2]>>
    ELSE IF h[1] >= gw THEN <<0, h[2]>>
    ELSE IF h[2] < 0 THEN <<h[1], gh - 1>>
    ELSE IF h[2] >= gh THEN <<h[1], 0>>
    ELSE h

\* the trail the wrap-around branch adds, at the edge that was left
WrapTrail(h, gw, gh) ==
    IF h[1] < 0 THEN add_transition_trail(0, h[2])
    ELSE IF h[1] >= gw THEN add_transition_trail(gw - 1, h[2])
    ELSE IF h[2] < 0 THEN add_transition_trail(h[1], 0)
    ELSE IF h[2] >= gh THEN add_transition_trail(h[1], gh - 1)
    ELSE << >>

\* the classic wall test of update
HitsWallOffByOne(h, gw, gh) == h[1] < 0 \/ h[1] > gw \/ h[2] < 0 \/ h[2] > gh

HitsWall(h, gw, gh) == h[1] < 0 \/ h[1] >= gw \/ h[2] < 0 \/ h[2] >= gh

\* new_head as update has it when it reaches the self-collision test
NewHead ==
    IF wrap_around THEN WrapHead(Moved, grid_width, grid_height) ELSE Moved

\* the self-collision test of update
HitsSelfButTail(h, snk) == \E i \in 1 .. Len(snk) - 1 : snk[i] = h

HitsSelf(h, snk) == InSnake(h, snk)

\* the game-over exit of update (wall or self collision)
EndGameKeepsHighScore ==
    /\ game_over' = TRUE
    /\ UNCHANGED <<high_score, high_score_file>>

EndGame ==
    /\ game_over' = TRUE
    /\ IF score > high_score
       THEN /\ high_score' = score
            /\ high_score_file' = save_high_score(score)
       ELSE UNCHANGED <<high_score, high_score_file>>

\* the snake after a move that eats no fruit: head inserted, tail popped
MoveSnakeKeepTail(snk, h) == <<h>> \o snk

\* the old head inserted instead of the new one
MoveSnakeOldHead(snk, h) == <<snk[1]>> \o SubSeq(snk, 1, Len(snk) - 1)

MoveSnake(snk, h) == <<h>> \o SubSeq(snk, 1, Len(snk) - 1)

\* the snake after a move onto the fruit: head inserted, tail kept
GrowSnake(snk, h) == <<h>> \o snk

\* the power-ups left after the collision loop of update
EatFirstPowerUp(pus, h) ==
    IF OnPowerUp(h, pus)
    THEN LET first == CHOOSE i \in 1 .. Len(pus) :
                        /\ pus[i].pos = h
                        /\ \A j \in 1 .. i - 1 : pus[j].pos # h
         IN  SubSeq(pus, 1, first - 1) \o SubSeq(pus, first + 1, Len(pus))
    ELSE pus

EatPowerUps(pus, h) == SelectSeq(pus, LAMBDA pu : pu.pos # h)

\* the number of power-ups the collision loop of update removes
EatenPowerUps(pus, h) == Len(pus) - Len(EatPowerUps(pus, h))

\* update: one tick
update ==
    /\ call' = <<"update">>
    /\ IF Frozen
       THEN UNCHANGED <<gameVars, ticks>>
       ELSE
       /\ ticks' = ticks + 1
       /\ direction' = next_direction
       /\ IF ~wrap_around /\ HitsWall(Moved, grid_width, grid_height)
          THEN /\ EndGame
               /\ UNCHANGED <<snake, score, fruit, power_ups, particles,
                              transition_particles, last_power_up_score>>
          ELSE
          /\ transition_particles' =
               IF wrap_around
               THEN transition_particles
                    \o WrapTrail(Moved, grid_width, grid_height)
               ELSE transition_particles
          /\ IF HitsSelf(NewHead, snake)
             THEN /\ EndGame
                  /\ UNCHANGED <<snake, score, fruit, power_ups, particles,
                                 last_power_up_score>>
             ELSE
             /\ UNCHANGED <<game_over, high_score, high_score_file>>
             /\ IF NewHead = fruit
                THEN \E r \in spawn_fruit(GrowSnake(snake, NewHead), power_ups,
                                          score + FruitPoints,
                                          last_power_up_score,
                                          grid_width, grid_height) :
                       LET n == EatenPowerUps(r.power_ups, NewHead)
                       IN
                       /\ snake' = GrowSnake(snake, NewHead)
                       /\ fruit' = r.fruit
                       /\ last_power_up_score' = r.last_power_up_score
                       /\ score' = score + FruitPoints + n * PowerUpPoints
                       /\ power_ups' =
                            update_power_ups(EatPowerUps(r.power_ups, NewHead))
                       /\ particles' = update_particles(
                            particles
                            \o add_particle_effect(NewHead[1], NewHead[2], "RED")
                            \o PowerUpBursts(n, NewHead))
                ELSE
                LET n == EatenPowerUps(power_ups, NewHead)
                IN
                /\ snake' = MoveSnake(snake, NewHead)
                /\ UNCHANGED <<fruit, last_power_up_score>>
                /\ score' = score + n * PowerUpPoints
                /\ power_ups' = update_power_ups(EatPowerUps(power_ups, NewHead))
                /\ particles' = update_particles(
                     particles \o PowerUpBursts(n, NewHead))
    /\ UNCHANGED <<width, height, grid_width, grid_height, next_direction,
                   paused, wrap_around, speed_boost>>

-----------------------------------------------------------------------------
(* GestureControl *)

max_history == 6
max_cooldown == 4
max_no_hand_frames == 12

\* Coordinates are hundredths of the frame. A smoothed position is the mean
\* of 1 .. max_history samples; it is kept multiplied by Unit, which every
\* window length divides, so that every mean is an integer.
Unit == 10 * max_history

\* confidence is kept in hundredths; the thresholds of the dynamic
\* sensitivity, in hundredths of the frame
dynamic_thresh(confidence) ==
    IF confidence > 80 THEN 2
    ELSE IF confidence > 50 THEN 3
    ELSE 5

Abs(n) == IF n < 0 THEN -n ELSE n

RECURSIVE SumX(_), SumY(_)
SumX(h) == IF h = << >> THEN 0 ELSE h[1][1] + SumX(Tail(h))
SumY(h) == IF h = << >> THEN 0 ELSE h[1][2] + SumY(Tail(h))

\* np.mean(self.position_history, axis=0), times Unit
Smoothed(h) ==
    <<SumX(h) * (Unit \div Len(h)), SumY(h) * (Unit \div Len(h))>>

\* position_history after the append and the eviction of the oldest
Pushed(h, pos) ==
    IF Len(h) + 1 > max_history THEN Tail(Append(h, pos)) ELSE Append(h, pos)

\* np.linalg.norm(movement) > thresh, both sides squared
Exceeds(movement, thresh) ==
    movement[1] * movement[1] + movement[2] * movement[2]
      > (thresh * Unit) * (thresh * Unit)

\* the direction of a movement with ties of the axes taken as horizontal
DirectionOfTiesHorizontal(movement) ==
    IF Abs(movement[1]) >= Abs(movement[2])
    THEN (IF movement[1] > 0 THEN "RIGHT" ELSE "LEFT")
    ELSE (IF movement[2] > 0 THEN "DOWN" ELSE "UP")

\* the direction of a movement: the larger axis decides, ties are vertical
DirectionOf(movement) ==
    IF Abs(movement[1]) > Abs(movement[2])
    THEN (IF movement[1] > 0 THEN "RIGHT" ELSE "LEFT")
    ELSE (IF movement[2] > 0 THEN "DOWN" ELSE "UP")

\* the gate of the direction decision
MayDecideAnyCooldown(prev, cooldown) == prev # << >>

MayDecide(prev, cooldown) == prev # << >> /\ cooldown <= 0

\* GestureControl.__init__
GestureInit ==
    /\ previous_position = << >>
    /\ position_history = << >>
    /\ current_direction = "NONE"
    /\ gesture_cooldown = 0
    /\ no_hand_frames = 0
    /\ last_confidence = 0
    /\ detected = [direction |-> "NONE", is_pinching |-> FALSE, error |-> FALSE]
    /\ missed = 0

\* the end of the try block: the cooldown counts down by one
CountDown(cooldown) == IF cooldown > 0 THEN cooldown - 1 ELSE cooldown

\* the except branch returning the local direction of the call, still None
DetectErrorLocal ==
    /\ detected' = [direction |-> "NONE", is_pinching |-> FALSE,
                    error |-> TRUE]
    /\ UNCHANGED <<previous_position, position_history, current_direction,
                   gesture_cooldown, no_hand_frames, last_confidence>>

\* detect_gestures on a frame in which the detector throws: nothing of the
\* state is touched, the current direction is returned without a pinch
DetectError ==
    /\ detected' = [direction |-> current_direction, is_pinching |-> FALSE,
                    error |-> TRUE]
    /\ UNCHANGED <<previous_position, position_history, current_direction,
                   gesture_cooldown, no_hand_frames, last_confidence>>

\* the test that the hand is lost, on the counter of hand-less frames
LostTrackingLate(n) == n > max_no_hand_frames + 1

LostTracking(n) == n > max_no_hand_frames

\* detect_gestures on a frame without a hand
DetectNoHand ==
    /\ last_confidence' = 0
    /\ IF LostTracking(no_hand_frames + 1)
       THEN \* reset_gesture_state
            /\ previous_position' = << >>
            /\ position_history' = << >>
            /\ current_direction' = "NONE"
            /\ gesture_cooldown' = CountDown(0)
            /\ no_hand_frames' = 0
       ELSE /\ no_hand_frames' = no_hand_frames + 1
            /\ gesture_cooldown' = CountDown(gesture_cooldown)
            /\ UNCHANGED <<previous_position, position_history,
                           current_direction>>
    /\ detected' = [direction |-> current_direction', is_pinching |-> FALSE,
                    error |-> FALSE]

\* smoothed - self.previous_position
Movement(smoothed, prev) == <<smoothed[1] - prev[1], smoothed[2] - prev[2]>>

\* whether a frame with this smoothed position sets a new current direction
Changes(smoothed, confidence) ==
    /\ MayDecide(previous_position, gesture_cooldown)
    /\ Exceeds(Movement(smoothed, previous_position),
               dynamic_thresh(confidence))
    /\ DirectionOf(Movement(smoothed, previous_position)) # current_direction

\* detect_gestures on a frame with one hand: wrist position, confidence of
\* the hand, and whether thumb tip and index tip are closer than 0.05
DetectHand(wrist, confidence, pinch) ==
    \E smoothed \in { Smoothed(Pushed(position_history, wrist)) } :
    \E changed \in { Changes(smoothed, confidence) } :
        /\ last_confidence' = confidence
        /\ no_hand_frames' = 0
        /\ position_history' = Pushed(position_history, wrist)
        /\ current_direction' =
             IF changed
             THEN DirectionOf(Movement(smoothed, previous_position))
             ELSE current_direction
        /\ gesture_cooldown' =
             CountDown(IF changed THEN max_cooldown ELSE gesture_cooldown)
        /\ previous_position' = smoothed
        /\ detected' = [direction |-> current_direction',
                        is_pinching |-> pinch, error |-> FALSE]

\* detect_gestures on one frame
detect_gestures(frame) ==
    /\ call' = <<"detect_gestures", frame.kind>>
    /\ missed' = CASE frame.kind = "error"   -> missed
                   [] frame.kind = "no_hand" ->
                        IF missed > max_no_hand_frames
                        THEN missed ELSE missed + 1
                   [] frame.kind = "hand"    -> 0
    /\ CASE frame.kind = "error"   -> DetectError
         [] frame.kind = "no_hand" -> DetectNoHand
         [] frame.kind = "hand"    ->
              DetectHand(frame.wrist, frame.confidence, frame.pinch)
    /\ UNCHANGED <<gameVars, ticks>>

-----------------------------------------------------------------------------
(* More operations of SnakeGame, used by the main loop *)

set_speed_boost(boost) ==
    /\ call' = <<"set_speed_boost", boost>>
    /\ speed_boost' = boost
    /\ UNCHANGED <<width, height, grid_width, grid_height, snake, direction,
                   next_direction, score, high_score, last_power_up_score,
                   game_over, paused, wrap_around, fruit, power_ups,
                   particles, transition_particles, high_score_file, ticks>>

\* draw_particles: drawing takes one life from every particle and every
\* transition particle and removes the dead
draw_particles(ps) ==
    SelectSeq([i \in 1 .. Len(ps) |-> [ps[i] EXCEPT !.life = @ - 1]], IsAlive)

-----------------------------------------------------------------------------
(* DualViewSnakeGame: fields *)

MinScreenWidth == 800
MinScreenHeight == 600

\* the shared slot before anything was published, and the locals of a thread
\* before it assigned them
NullSnapshot == [gesture |-> "NONE", pinching |-> FALSE, frame |-> 0]

\* DualViewSnakeGame.__init__: camera, thread and shared state
MainInit ==
    /\ running = TRUE
    /\ cap = "NONE"
    /\ hands = "OPEN"
    /\ frame_lock = "FREE"
    /\ current_gesture = "NONE"
    /\ is_pinching = FALSE
    /\ annotated_frame = 0
    /\ main_pc = "run"
    /\ worker_pc = "unstarted"
    /\ snapshot = NullSnapshot
    /\ inference = NullSnapshot
    /\ frames = 0
    /\ published = NullSnapshot

\* draw_split_view: the game is resized to the left half of the window and
\* drawn; a game that is over draws no particles
draw_split_view ==
    /\ call' = <<"draw_split_view">>
    /\ width' = screen[1] \div 2
    /\ height' = screen[2]
    /\ grid_width' = GridOf(screen[1] \div 2)
    /\ grid_height' = GridOf(screen[2])
    /\ IF game_over
       THEN UNCHANGED <<particles, transition_particles>>
       ELSE /\ particles' = draw_particles(particles)
            /\ transition_particles' = draw_particles(transition_particles)
    /\ UNCHANGED <<snake, direction, next_direction, score, high_score,
                   last_power_up_score, game_over, paused, wrap_around,
                   speed_boost, fruit, power_ups, high_score_file, ticks>>

-----------------------------------------------------------------------------
(* DualViewSnakeGame.run: the main thread *)

\* frame_lock can be taken
LockIgnored == TRUE

LockFree == frame_lock = "FREE"

\* run up to the loop: initialize_camera opens a camera or does not, and
\* the gesture thread is started
MainStart ==
    /\ main_pc = "run"
    /\ \E opened \in BOOLEAN :
          /\ cap' = IF opened THEN "OPEN" ELSE "NONE"
          /\ call' = <<"initialize_camera", opened>>
    /\ worker_pc' = "check"
    /\ main_pc' = "events"
    /\ UNCHANGED <<gameVars, gestureVars, ticks, missed, screen, running,
                   hands, frame_lock, current_gesture, is_pinching,
                   annotated_frame, snapshot, inference, frames, published>>

\* the top of an iteration: the events of the frame, here one at most
\* (<<"NONE">> for an empty queue); keys other than ESC and SPACE, and
\* events of other types, are dropped
MainEvents(ev) ==
    /\ main_pc = "events"
    /\ running
    /\ main_pc' = "acquire"
    /\ CASE ev = <<"QUIT">> \/ ev = <<"KEYDOWN", "K_ESCAPE">> ->
              /\ running' = FALSE
              /\ call' = <<"event", ev>>
              /\ UNCHANGED <<gameVars, ticks, screen>>
         [] ev[1] = "VIDEORESIZE" ->
              /\ screen' = <<ev[2], ev[3]>>
              /\ call' = <<"event", ev>>
              /\ UNCHANGED <<gameVars, ticks, running>>
         [] ev = <<"KEYDOWN", "K_SPACE">> ->
              /\ toggle_pause
              /\ UNCHANGED <<screen, running>>
         [] OTHER ->
              /\ call' = <<"event", ev>>
              /\ UNCHANGED <<gameVars, ticks, screen, running>>
    /\ UNCHANGED <<gestureVars, missed, cap, hands, frame_lock,
                   current_gesture, is_pinching, annotated_frame, worker_pc,
                   snapshot, inference, frames, published>>

\* the loop condition fails: on to the finally clause
MainLeave ==
    /\ main_pc = "events"
    /\ ~running
    /\ main_pc' = "cleanup"
    /\ call' = <<"run", "leave">>
    /\ UNCHANGED <<gameVars, gestureVars, ticks, missed, screen, running, cap,
                   hands, frame_lock, current_gesture, is_pinching,
                   annotated_frame, worker_pc, snapshot, inference, frames,
                   published>>

\* what the main loop waits for before it copies the shared slot
MaySnapshotWhenFresh == LockFree /\ annotated_frame # snapshot.frame

MaySnapshot == LockFree

\* with self.frame_lock
MainAcquire ==
    /\ main_pc = "acquire"
    /\ MaySnapshot
    /\ frame_lock' = "MAIN"
    /\ main_pc' = "read_gesture"
    /\ call' = <<"run", "acquire">>
    /\ UNCHANGED <<gameVars, gestureVars, ticks, missed, screen, running, cap,
                   hands, current_gesture, is_pinching, annotated_frame,
                   worker_pc, snapshot, inference, frames, published>>

\* gesture = self.current_gesture
MainReadGesture ==
    /\ main_pc = "read_gesture"
    /\ snapshot' = [snapshot EXCEPT !.gesture = current_gesture]
    /\ main_pc' = "read_pinching"
    /\ call' = <<"run", "read_gesture">>
    /\ UNCHANGED <<gameVars, gestureVars, ticks, missed, screen, running, cap,
                   hands, frame_lock, current_gesture, is_pinching,
                   annotated_frame, worker_pc, inference, frames, published>>

\* pinching = self.is_pinching
MainReadPinching ==
    /\ main_pc = "read_pinching"
    /\ snapshot' = [snapshot EXCEPT !.pinching = is_pinching]
    /\ main_pc' = "read_frame"
    /\ call' = <<"run", "read_pinching">>
    /\ UNCHANGED <<gameVars, gestureVars, ticks, missed, screen, running, cap,
                   hands, frame_lock, current_gesture, is_pinching,
                   annotated_frame, worker_pc, inference, frames, published>>

\* cam_frame = the copy of self.annotated_frame; the lock is released
MainReadFrame ==
    /\ main_pc = "read_frame"
    /\ snapshot' = [snapshot EXCEPT !.frame = annotated_frame]
    /\ frame_lock' = "FREE"
    /\ main_pc' = "apply"
    /\ call' = <<"run", "read_frame">>
    /\ UNCHANGED <<gameVars, gestureVars, ticks, missed, screen, running, cap,
                   hands, current_gesture, is_pinching, annotated_frame,
                   worker_pc, inference, frames, published>>

\* the gesture is applied: change_direction, and handle_restart when the
\* game is over (change_direction returns at once on a game that is over)
MainApply ==
    /\ main_pc = "apply"
    /\ main_pc' = "boost"
    /\ IF snapshot.gesture = "NONE"
       THEN /\ call' = <<"run", "apply">>
            /\ UNCHANGED <<gameVars, ticks>>
       ELSE IF game_over
            THEN handle_restart(snapshot.gesture)
            ELSE change_direction(snapshot.gesture)
    /\ UNCHANGED <<gestureVars, missed, screen, running, cap, hands,
                   frame_lock, current_gesture, is_pinching, annotated_frame,
                   worker_pc, snapshot, inference, frames, published>>

\* self.game.set_speed_boost(pinching)
MainBoost ==
    /\ main_pc = "boost"
    /\ main_pc' = "update"
    /\ set_speed_boost(snapshot.pinching)
    /\ UNCHANGED <<gestureVars, missed, screen, running, cap, hands,
                   frame_lock, current_gesture, is_pinching, annotated_frame,
                   worker_pc, snapshot, inference, frames, published>>

\* the game is ticked when its period has passed
MainUpdate(due) ==
    /\ main_pc = "update"
    /\ main_pc' = "draw"
    /\ IF due
       THEN update
       ELSE /\ call' = <<"run", "update">>
            /\ UNCHANGED <<gameVars, ticks>>
    /\ UNCHANGED <<gestureVars, missed, screen, running, cap, hands,
                   frame_lock, current_gesture, is_pinching, annotated_frame,
                   worker_pc, snapshot, inference, frames, published>>

\* self.draw_split_view(cam_frame), and the next iteration
MainDraw ==
    /\ main_pc = "draw"
    /\ main_pc' = "events"
    /\ draw_split_view
    /\ UNCHANGED <<gestureVars, missed, screen, running, cap, hands,
                   frame_lock, current_gesture, is_pinching, annotated_frame,
                   worker_pc, snapshot, inference, frames, published>>

-----------------------------------------------------------------------------
(* DualViewSnakeGame.cleanup *)

\* self.running = False
MainStop ==
    /\ main_pc = "cleanup"
    /\ running' = FALSE
    /\ main_pc' = "join"
    /\ call' = <<"cleanup", "stop">>
    /\ UNCHANGED <<gameVars, gestureVars, ticks, missed, screen, cap, hands,
                   frame_lock, current_gesture, is_pinching, annotated_frame,
                   worker_pc, snapshot, inference, frames, published>>

\* join(timeout=2.0): returns when the thread has ended, or after two
\* seconds whatever the thread does
MainJoin ==
    /\ main_pc = "join"
    /\ main_pc' = "release"
    /\ call' = <<"cleanup", "join">>
    /\ UNCHANGED <<gameVars, gestureVars, ticks, missed, screen, running, cap,
                   hands, frame_lock, current_gesture, is_pinching,
                   annotated_frame, worker_pc, snapshot, inference, frames,
                   published>>

\* the camera is released and the detector closed
MainRelease ==
    /\ main_pc = "release"
    /\ cap' = IF cap = "OPEN" THEN "RELEASED" ELSE cap
    /\ hands' = "CLOSED"
    /\ main_pc' = "save"
    /\ call' = <<"cleanup", "release">>
    /\ UNCHANGED <<gameVars, gestureVars, ticks, missed, screen, running,
                   frame_lock, current_gesture, is_pinching, annotated_frame,
                   worker_pc, snapshot, inference, frames, published>>

\* the score of the game in progress is saved when it is a new high score
MainSave ==
    /\ main_pc = "save"
    /\ IF score > high_score
       THEN /\ high_score' = score
            /\ high_score_file' = save_high_score(score)
       ELSE UNCHANGED <<high_score, high_score_file>>
    /\ main_pc' = "done"
    /\ call' = <<"cleanup", "save">>
    /\ UNCHANGED <<width, height, grid_width, grid_height, snake, direction,
                   next_direction, score, last_power_up_score, game_over,
                   paused, wrap_around, speed_boost, fruit, power_ups,
                   particles, transition_particles>>
    /\ UNCHANGED <<gestureVars, ticks, missed, screen, running, cap, hands,
                   frame_lock, current_gesture, is_pinching, annotated_frame,
                   worker_pc, snapshot, inference, frames, published>>

\* cleanup called with no gesture thread to join: the flag is lowered, the
\* camera released, the detector closed and the score saved when it is a
\* new high score
cleanup ==
    /\ main_pc # "done"
    /\ worker_pc = "unstarted"
    /\ running' = FALSE
    /\ cap' = IF cap = "OPEN" THEN "RELEASED" ELSE cap
    /\ hands' = "CLOSED"
    /\ IF score > high_score
       THEN /\ high_score' = score
            /\ high_score_file' = save_high_score(score)
       ELSE UNCHANGED <<high_score, high_score_file>>
    /\ main_pc' = "done"
    /\ call' = <<"cleanup">>
    /\ UNCHANGED <<width, height, grid_width, grid_height, snake, direction,
                   next_direction, score, last_power_up_score, game_over,
                   paused, wrap_around, speed_boost, fruit, power_ups,
                   particles, transition_particles>>
    /\ UNCHANGED <<gestureVars, ticks, missed, screen, frame_lock,
                   current_gesture, is_pinching, annotated_frame, worker_pc,
                   snapshot, inference, frames, published>>

-----------------------------------------------------------------------------
(* DualViewSnakeGame.gesture_detection_loop: the background thread *)

\* a loop that does not test the flag
WorkerCheckIgnoresFlag ==
    /\ worker_pc = "check"
    /\ worker_pc' = "read"
    /\ call' = <<"gesture_detection_loop", "check">>
    /\ UNCHANGED <<gameVars, gestureVars, ticks, missed, screen, running, cap,
                   hands, frame_lock, current_gesture, is_pinching,
                   annotated_frame, main_pc, snapshot, inference, frames,
                   published>>

\* while self.running
WorkerCheck ==
    /\ worker_pc = "check"
    /\ worker_pc' = IF running THEN "read" ELSE "done"
    /\ call' = <<"gesture_detection_loop", "check">>
    /\ UNCHANGED <<gameVars, gestureVars, ticks, missed, screen, running, cap,
                   hands, frame_lock, current_gesture, is_pinching,
                   annotated_frame, main_pc, snapshot, inference, frames,
                   published>>

\* the read step of a loop that waits for the camera without going back to
\* the loop test
WorkerReadSpins(got) ==
    /\ worker_pc = "read"
    /\ got => cap = "OPEN"
    /\ IF cap = "NONE"
       THEN /\ frames' = frames
            /\ worker_pc' = "read"
       ELSE IF got
            THEN /\ frames' = frames + 1
                 /\ worker_pc' = "detect"
            ELSE /\ frames' = frames
                 /\ worker_pc' = "check"
    /\ call' = <<"gesture_detection_loop", "read">>
    /\ UNCHANGED <<gameVars, gestureVars, ticks, missed, screen, running, cap,
                   hands, frame_lock, current_gesture, is_pinching,
                   annotated_frame, main_pc, snapshot, inference, published>>

\* no camera: sleep and try again; else cap.read(), which hands over a
\* frame (got) or fails, as it does on a camera that was released
WorkerRead(got) ==
    /\ worker_pc = "read"
    /\ got => cap = "OPEN"
    /\ IF cap # "NONE" /\ got
       THEN /\ frames' = frames + 1
            /\ worker_pc' = "detect"
       ELSE /\ frames' = frames
            /\ worker_pc' = "check"
    /\ call' = <<"gesture_detection_loop", "read">>
    /\ UNCHANGED <<gameVars, gestureVars, ticks, missed, screen, running, cap,
                   hands, frame_lock, current_gesture, is_pinching,
                   annotated_frame, main_pc, snapshot, inference, published>>

\* detect_gestures(frame) returns; a detector that was closed throws inside
\* it
WorkerDetect(frame) ==
    /\ worker_pc = "detect"
    /\ hands = "CLOSED" => frame.kind = "error"
    /\ detect_gestures(frame)
    /\ inference' = [gesture |-> detected'.direction,
                     pinching |-> detected'.is_pinching,
                     frame |-> frames]
    /\ worker_pc' = "acquire"
    /\ UNCHANGED <<screen, running, cap, hands, frame_lock, current_gesture,
                   is_pinching, annotated_frame, main_pc, snapshot, frames,
                   published>>

\* an exception out of detect_gestures: sleep, and back to the loop test
WorkerRaise ==
    /\ worker_pc = "detect"
    /\ worker_pc' = "check"
    /\ call' = <<"gesture_detection_loop", "except">>
    /\ UNCHANGED <<gameVars, gestureVars, ticks, missed, screen, running, cap,
                   hands, frame_lock, current_gesture, is_pinching,
                   annotated_frame, main_pc, snapshot, inference, frames,
                   published>>

\* with self.frame_lock
WorkerAcquire ==
    /\ worker_pc = "acquire"
    /\ LockFree
    /\ frame_lock' = "WORKER"
    /\ worker_pc' = "write_gesture"
    /\ call' = <<"gesture_detection_loop", "acquire">>
    /\ UNCHANGED <<gameVars, gestureVars, ticks, missed, screen, running, cap,
                   hands, current_gesture, is_pinching, annotated_frame,
                   main_pc, snapshot, inference, frames, published>>

\* self.current_gesture = gesture
WorkerWriteGesture ==
    /\ worker_pc = "write_gesture"
    /\ current_gesture' = inference.gesture
    /\ worker_pc' = "write_pinching"
    /\ call' = <<"gesture_detection_loop", "write_gesture">>
    /\ UNCHANGED <<gameVars, gestureVars, ticks, missed, screen, running, cap,
                   hands, frame_lock, is_pinching, annotated_frame, main_pc,
                   snapshot, inference, frames, published>>

\* self.is_pinching = pinching
WorkerWritePinching ==
    /\ worker_pc = "write_pinching"
    /\ is_pinching' = inference.pinching
    /\ worker_pc' = "write_frame"
    /\ call' = <<"gesture_detection_loop", "write_pinching">>
    /\ UNCHANGED <<gameVars, gestureVars, ticks, missed, screen, running, cap,
                   hands, frame_lock, current_gesture, annotated_frame,
                   main_pc, snapshot, inference, frames, published>>

\* self.annotated_frame = annotated.copy(); the lock is released and the
\* publish is complete
WorkerWriteFrame ==
    /\ worker_pc = "write_frame"
    /\ annotated_frame' = inference.frame
    /\ frame_lock' = "FREE"
    /\ published' = inference
    /\ worker_pc' = "check"
    /\ call' = <<"gesture_detection_loop", "write_frame">>
    /\ UNCHANGED <<gameVars, gestureVars, ticks, missed, screen, running, cap,
                   hands, current_gesture, is_pinching, main_pc, snapshot,
                   inference, frames>>

\* the game and the gesture controller constructed on their own, the window
\* twice as wide as the game
Init ==
    /\ GameInit
    /\ GestureInit
    /\ MainInit
    /\ screen = <<2 * width, height>>

-----------------------------------------------------------------------------
(* Specifications of the game engine *)

\* the gestures handle_restart is called with ("NONE" for None)
Requests == { "UP", "DOWN", "NONE" }

\* the game engine under every operation, for a few ticks
NextGame ==
    /\ UNCHANGED <<gestureVars, appVars, missed, resizes>>
    /\ \/ (Frozen \/ ticks < MaxTicks) /\ update
       \/ \E d \in Directions : change_direction(d)
       \/ toggle_pause
       \/ toggle_wrap
       \/ \E g \in Requests : handle_restart(g)

SpecGame == Init /\ [][NextGame]_vars

\* no high score is stored yet
InitFresh == Init /\ high_score_file.state = "missing"

\* a game that is steered and never paused, as the main loop runs it
NextMove ==
    /\ UNCHANGED <<gestureVars, appVars, missed, resizes>>
    /\ \/ ticks < MaxMoveTicks /\ update
       \/ \E d \in Directions : change_direction(d)

SpecMove == InitFresh /\ [][NextMove]_vars

\* a run of meals: the snake is steered up and right, and every tick eats
\* something or ends the game
MealDirections == { "UP", "RIGHT" }

NextMeal ==
    /\ UNCHANGED <<gestureVars, appVars, missed, resizes>>
    /\ \/ ticks < MaxMealTicks /\ update /\ (score' > score \/ game_over')
       \/ \E d \in MealDirections : change_direction(d)

SpecMeal == InitFresh /\ [][NextMeal]_vars

\* the game engine under every operation until the application is cleaned
\* up
NextSession ==
    \/ main_pc # "done" /\ NextGame
    \/ cleanup /\ UNCHANGED resizes

SpecSession == Init /\ [][NextSession]_vars

-----------------------------------------------------------------------------
(* Specification of the game in a window that is resized *)

\* update() ticks explored in a window that is resized
MaxWindowTicks == 2

\* resizes of the window explored
MaxResizes == 2

\* the sizes the window is dragged to: grids of 4 x 4 and 5 x 4 cells
WindowSizes == { <<160, 80>>, <<200, 80>> }

\* the cells the random draws of spawn_fruit come out on: in front of the
\* seed, and two cells of the left column
WindowFruits == { <<3, 2>>, <<0, 0>>, <<0, 3>> }

\* a VIDEORESIZE event: the window takes the new size
VideoResize(size) ==
    /\ screen' = size
    /\ call' = <<"event", <<"VIDEORESIZE", size[1], size[2]>>>>
    /\ UNCHANGED <<gameVars, ticks>>

\* the operations the main loop calls on the game, and the resizes of the
\* window with the redraw that applies them (the redraws of a window that
\* kept its size only age the particles), with the fruit drawn from
\* WindowFruits
NextWindow ==
    /\ UNCHANGED <<gestureVars, missed, running, cap, hands, frame_lock,
                   current_gesture, is_pinching, annotated_frame, main_pc,
                   worker_pc, snapshot, inference, frames, published>>
    /\ \/ /\ Frozen \/ ticks < MaxWindowTicks
          /\ update
          /\ UNCHANGED <<screen, resizes>>
       \/ /\ \E d \in Directions : change_direction(d)
          /\ UNCHANGED <<screen, resizes>>
       \/ /\ toggle_pause
          /\ UNCHANGED <<screen, resizes>>
       \/ /\ \E g \in Requests : handle_restart(g)
          /\ UNCHANGED <<screen, resizes>>
       \/ /\ resizes < MaxResizes
          /\ resizes' = resizes + 1
          /\ \E size \in WindowSizes : VideoResize(size)
       \/ /\ <<width, height>> # <<screen[1] \div 2, screen[2]>>
          /\ draw_split_view
          /\ UNCHANGED <<screen, resizes>>
    /\ fruit' \in WindowFruits

InitWindow == InitFresh /\ fruit \in WindowFruits

SpecWindow == InitWindow /\ [][NextWindow]_vars

-----------------------------------------------------------------------------
(* Specification of the score file *)

\* high scores written
MaxScore == 120

\* a game reaches the high score n and saves it
SaveScore(n) ==
    /\ high_score' = n
    /\ high_score_file' = save_high_score(n)
    /\ call' = <<"save_high_score", n>>
    /\ UNCHANGED <<width, height, grid_width, grid_height, snake, direction,
                   next_direction, score, last_power_up_score, game_over,
                   paused, wrap_around, speed_boost, fruit, power_ups,
                   particles, transition_particles, ticks>>

\* a new process constructs its game: the high score is loaded
LoadScore ==
    /\ high_score' = load_high_score(high_score_file)
    /\ call' = <<"load_high_score">>
    /\ UNCHANGED <<width, height, grid_width, grid_height, snake, direction,
                   next_direction, score, last_power_up_score, game_over,
                   paused, wrap_around, speed_boost, fruit, power_ups,
                   particles, transition_particles, high_score_file, ticks>>

\* between two runs the file is removed or damaged
SpoilFile(state) ==
    /\ high_score_file' = [state |-> state, high_score |-> << >>]
    /\ call' = <<"spoil", state>>
    /\ UNCHANGED <<width, height, grid_width, grid_height, snake, direction,
                   next_direction, score, high_score, last_power_up_score,
                   game_over, paused, wrap_around, speed_boost, fruit,
                   power_ups, particles, transition_particles, ticks>>

NextScores ==
    /\ UNCHANGED <<gestureVars, appVars, missed, resizes>>
    /\ \/ \E n \in 0 .. MaxScore : SaveScore(n)
       \/ LoadScore
       \/ \E st \in {"missing", "corrupt"} : SpoilFile(st)

SpecScores == Init /\ [][NextScores]_vars

-----------------------------------------------------------------------------
(* Specification of the gesture interpreter *)

\* wrist positions, in hundredths of the frame
WristPoints == { <<50, 50>>, <<80, 50>>, <<50, 80>> }

\* confidences of a detected hand, in hundredths
Confidences == { 40, 90 }

\* the frames the camera delivers
Frames ==
    { [kind |-> "error"], [kind |-> "no_hand"] }
    \cup { [kind |-> "hand", wrist |-> w, confidence |-> c, pinch |-> b] :
             w \in WristPoints, c \in Confidences, b \in BOOLEAN }

\* the game is left alone, with the first fruit in the corner
InitStill == InitFresh /\ fruit = <<0, 0>>

NextGesture ==
    /\ UNCHANGED <<appVars, resizes>>
    /\ \E f \in Frames : detect_gestures(f)

SpecGesture == InitStill /\ [][NextGesture]_vars

-----------------------------------------------------------------------------
(* Specification of the application: both threads *)

\* camera frames read
MaxFrames == 2

\* update() ticks explored in the application
MaxAppTicks == 2

\* what pygame.display.Info() reports
Displays == { <<640, 480>> }

\* the events of one iteration of the main loop
Keys == { "K_ESCAPE", "K_SPACE", "K_UP", "K_LEFT" }

AppEvents == { <<"NONE">>, <<"QUIT">> } \cup { <<"KEYDOWN", k>> : k \in Keys }

\* the frames the camera delivers to the thread
AppFrames ==
    { [kind |-> "error"], [kind |-> "no_hand"],
      [kind |-> "hand", wrist |-> <<50, 50>>, confidence |-> 90,
       pinch |-> FALSE],
      [kind |-> "hand", wrist |-> <<50, 80>>, confidence |-> 90,
       pinch |-> TRUE] }

\* DualViewSnakeGame.__init__: the window is at least 800 x 600 and the
\* game takes its left half; no high score is stored, the first fruit is
\* in the corner
InitApp ==
    /\ \E d \in Displays :
          screen = <<Max(MinScreenWidth, d[1]), Max(MinScreenHeight, d[2])>>
    /\ GameInitAt(<<screen[1] \div 2, screen[2]>>)
    /\ GestureInit
    /\ MainInit
    /\ high_score_file.state = "missing"
    /\ fruit = <<0, 0>>

NextMain ==
    /\ UNCHANGED resizes
    /\ \/ MainStart
       \/ \E ev \in AppEvents : MainEvents(ev)
       \/ MainLeave
       \/ MainAcquire
       \/ MainReadGesture
       \/ MainReadPinching
       \/ MainReadFrame
       \/ MainApply
       \/ MainBoost
       \/ \E due \in BOOLEAN :
             /\ due => (Frozen \/ ticks < MaxAppTicks)
             /\ MainUpdate(due)
       \/ MainDraw
       \/ MainStop
       \/ MainJoin
       \/ MainRelease
       \/ MainSave

NextWorker ==
    /\ UNCHANGED resizes
    /\ \/ WorkerCheck
       \/ \E got \in BOOLEAN : (got => frames < MaxFrames) /\ WorkerRead(got)
       \/ \E f \in AppFrames : WorkerDetect(f)
       \/ WorkerRaise
       \/ WorkerAcquire
       \/ WorkerWriteGesture
       \/ WorkerWritePinching
       \/ WorkerWriteFrame

NextApp == NextMain \/ NextWorker

SpecApp == InitApp /\ [][NextApp]_vars

\* the block the thread runs holding frame_lock
WorkerPublish ==
    /\ UNCHANGED resizes
    /\ WorkerWriteGesture \/ WorkerWritePinching \/ WorkerWriteFrame

\* The main thread keeps running and gets the lock when it is free again
\* and again; the thread leaves its locked block; outside of it the
\* thread may run at any pace, or hang in cap.read or in the detector.
SpecAppMainFair ==
    /\ SpecApp
    /\ WF_vars(NextMain)
    /\ SF_vars(UNCHANGED resizes /\ MainAcquire)
    /\ WF_vars(WorkerPublish)

-----------------------------------------------------------------------------
(* Properties of the game engine *)

\* the cells of a snake
SnakeCells(snk) == { snk[i] : i \in 1 .. Len(snk) }

\* the step is a call of update() that finds the game running
Tick == call' = <<"update">> /\ ~game_over /\ ~paused

\* d is the exact opposite of direction e
Reverses(d, e) ==
    /\ DirVec(d)[1] + DirVec(e)[1] = 0
    /\ DirVec(d)[2] + DirVec(e)[2] = 0

\* the head is a cell of the grid
HeadInGrid == snake[1] \in Cells(grid_width, grid_height)

\* the number of power-ups on cell c
PowerUpsOn(c) == Cardinality({ i \in 1 .. Len(power_ups) : power_ups[i].pos = c })

\* C1: a running tick whose new head (after any wrap) is a cell of the
\* snake, the tail included, sets game_over and changes neither the snake
\* nor the score, the fruit, the power-ups or the particles.
C1_SelfCollision ==
    [][ (Tick /\ NewHead \in SnakeCells(snake))
        => /\ game_over'
           /\ snake' = snake
           /\ score' = score
           /\ fruit' = fruit
           /\ power_ups' = power_ups
           /\ last_power_up_score' = last_power_up_score
           /\ particles' = particles ]_vars

\* the snake ran into its own tail cell
C1_Witness ==
    /\ call = <<"update">>
    /\ game_over
    /\ Len(snake) >= 4
    /\ NewHead = snake[Len(snake)]

\* C2: a running tick whose new head is the fruit cell adds exactly 10 to
\* the score, grows the snake by exactly the new head (tail kept) and
\* leaves the fruit on a cell that is no cell of the new snake.
C2_FruitConsumption ==
    [][ (Tick /\ NewHead = fruit)
        => /\ score' = score + 10
           /\ Len(snake') = Len(snake) + 1
           /\ snake' = <<fruit>> \o snake
           /\ fruit' \notin SnakeCells(snake') ]_vars

\* the first fruit was eaten one cell right of the seed
C2_Witness ==
    /\ call = <<"update">>
    /\ ticks = 1
    /\ score = 10
    /\ snake = << <<3, 2>>, <<2, 2>>, <<1, 2>>, <<0, 2>> >>

\* C3: change_direction(d) with d the exact opposite of the active
\* direction leaves next_direction as it was, whatever is queued.
C3_ReversalRejected ==
    [][ \A d \in Directions :
          (call' = <<"change_direction", d>> /\ Reverses(d, direction))
          => next_direction' = next_direction ]_vars

\* LEFT was requested while moving RIGHT with UP queued, game running
C3_Witness ==
    /\ call = <<"change_direction", "LEFT">>
    /\ direction = "RIGHT"
    /\ next_direction = "UP"
    /\ ~game_over
    /\ ~paused

\* the cell on the opposite edge for a head that left the grid by one step
OppositeEdge(h) ==
    CASE h[1] = -1          -> <<grid_width - 1, h[2]>>
      [] h[1] = grid_width  -> <<0, h[2]>>
      [] h[2] = -1          -> <<h[1], grid_height - 1>>
      [] h[2] = grid_height -> <<h[1], 0>>

\* the running tick takes the head of a snake inside the grid over an edge
\* in wrap mode
EdgeTick ==
    /\ Tick
    /\ wrap_around
    /\ HeadInGrid
    /\ Moved \notin Cells(grid_width, grid_height)

\* C4 as claimed: every such tick places the head on the opposite edge and
\* adds a trail.
C4_AsClaimed ==
    [][ EdgeTick
        => /\ snake'[1] = OppositeEdge(Moved)
           /\ Len(transition_particles') = Len(transition_particles) + 1 ]_vars

\* C4: in wrap mode a tick that takes the head over an edge computes the
\* new head on the opposite edge of that axis, the other coordinate
\* unchanged, and adds a transition trail of eight particles; the head is
\* placed there and game_over stays false unless that cell is a cell of
\* the snake, and then the tick ends in self-collision.
C4_WrapMode ==
    [][ EdgeTick
        => /\ transition_particles' =
                transition_particles
                \o << [x |-> (IF Moved[1] = -1 THEN 0
                              ELSE IF Moved[1] = grid_width
                                   THEN grid_width - 1 ELSE Moved[1]) * 20 + 10,
                       y |-> (IF Moved[2] = -1 THEN 0
                              ELSE IF Moved[2] = grid_height
                                   THEN grid_height - 1 ELSE Moved[2]) * 20 + 10,
                       life |-> 3, max_life |-> 3, color |-> "TRAIL",
                       count |-> 8] >>
           /\ IF OppositeEdge(Moved) \in SnakeCells(snake)
              THEN game_over' /\ snake' = snake
              ELSE ~game_over' /\ snake'[1] = OppositeEdge(Moved) ]_vars

\* the head came in over the left edge (x = -1), and over the top edge
C4_Witness ==
    /\ call = <<"update">>
    /\ ~game_over
    /\ direction = "LEFT"
    /\ snake[1][1] = grid_width - 1
    /\ snake[2][1] = 0
    /\ Len(transition_particles) >= 1

\* C5: in classic mode a running tick whose new head is outside the grid
\* sets game_over and leaves snake, score, fruit and power-ups unchanged.
C5_ClassicWall ==
    [][ (Tick /\ ~wrap_around /\ Moved \notin Cells(grid_width, grid_height))
        => /\ game_over'
           /\ snake' = snake
           /\ score' = score
           /\ fruit' = fruit
           /\ power_ups' = power_ups ]_vars

\* the snake ran into the right wall
C5_Witness ==
    /\ call = <<"update">>
    /\ game_over
    /\ ~wrap_around
    /\ snake[1][1] = grid_width - 1
    /\ direction = "RIGHT"

\* C6 as claimed: a running tick whose new head is the cell of an active
\* power-up adds exactly 20 to the score.
C6_AsClaimed ==
    [][ (Tick /\ PowerUpsOn(NewHead) >= 1)
        => /\ score' = score + 20
           /\ Len(snake') = Len(snake)
           /\ \A i \in 1 .. Len(power_ups') : power_ups'[i].pos # NewHead ]_vars

\* C6: a running tick whose new head is the cell of active power-ups adds
\* exactly 20 to the score for each power-up on that cell, leaves the
\* length of the snake unchanged and removes every power-up on that cell.
C6_PowerUpConsumption ==
    [][ (Tick /\ PowerUpsOn(NewHead) >= 1)
        => /\ score' = score + 20 * PowerUpsOn(NewHead)
           /\ Len(snake') = Len(snake)
           /\ snake'[1] = NewHead
           /\ \A i \in 1 .. Len(power_ups') : power_ups'[i].pos # NewHead
           /\ Len(power_ups') = Len(power_ups) - PowerUpsOn(NewHead) ]_vars

\* a power-up was eaten: three fruits and one star
C6_Witness ==
    /\ call = <<"update">>
    /\ score = 50
    /\ Len(snake) = 6
    /\ power_ups = << >>
    /\ last_power_up_score = 30

\* C7: a running tick whose new head is in the grid and is neither a snake
\* cell nor the fruit nor a power-up moves the snake (new head in front,
\* last cell dropped), keeps the score and leaves game_over false.
C7_PlainMove ==
    [][ (/\ Tick
         /\ NewHead \in Cells(grid_width, grid_height)
         /\ NewHead \notin SnakeCells(snake)
         /\ NewHead # fruit
         /\ PowerUpsOn(NewHead) = 0)
        => /\ snake' = <<NewHead>> \o SubSeq(snake, 1, Len(snake) - 1)
           /\ Len(snake') = Len(snake)
           /\ score' = score
           /\ ~game_over' ]_vars

\* the seed moved one cell to the right
C7_Witness ==
    /\ call = <<"update">>
    /\ ticks = 1
    /\ snake = << <<3, 2>>, <<2, 2>>, <<1, 2>> >>
    /\ direction = "RIGHT"
    /\ score = 0
    /\ ~game_over

\* C8: update() called while paused or game over changes nothing of the
\* game.
C8_FrozenTick ==
    [][ (call' = <<"update">> /\ (paused \/ game_over))
        => UNCHANGED gameVars ]_vars

\* update() was called on a paused game after a tick
C8_Witness ==
    /\ call = <<"update">>
    /\ paused
    /\ ~game_over
    /\ ticks >= 1

\* the state reset_game leaves
FreshGame ==
    /\ snake = << <<grid_width \div 2, grid_height \div 2>>,
                  <<grid_width \div 2 - 1, grid_height \div 2>>,
                  <<grid_width \div 2 - 2, grid_height \div 2>> >>
    /\ direction = "RIGHT"
    /\ next_direction = "RIGHT"
    /\ score = 0
    /\ ~paused
    /\ ~game_over
    /\ power_ups = << >>
    /\ particles = << >>
    /\ transition_particles = << >>
    /\ fruit \in Cells(grid_width, grid_height)
    /\ fruit \notin SnakeCells(snake)

\* C9: game_over turns false only in handle_restart("UP"); handle_restart
\* with another gesture or None changes nothing; the restart leaves the
\* 3-cell seed at the grid centre heading RIGHT, score 0, not paused, no
\* power-ups, no particles, and the fruit off the snake.
C9_Restart ==
    [][ /\ (game_over /\ ~game_over') => call' = <<"handle_restart", "UP">>
        /\ \A g \in Requests \ {"UP"} :
              call' = <<"handle_restart", g>> => UNCHANGED gameVars
        /\ (game_over /\ call' = <<"handle_restart", "UP">>) => FreshGame' ]_vars

\* a game that ended was restarted
C9_Witness ==
    /\ call = <<"handle_restart", "UP">>
    /\ ticks \in 1 .. 3
    /\ FreshGame

-----------------------------------------------------------------------------
(* Properties of the gesture interpreter *)

\* the step is a call of detect_gestures
Frame == call'[1] = "detect_gestures"

\* C10: a frame that starts with the cooldown counter positive leaves the
\* current direction of the interpreter as it was.
C10_CooldownGate ==
    [][ (Frame /\ gesture_cooldown > 0)
        => current_direction' = current_direction ]_vars

\* a hand frame that started with a positive cooldown brought a movement
\* over the threshold, in a direction other than the current one
C10_Witness ==
    /\ call = <<"detect_gestures", "hand">>
    /\ gesture_cooldown \in 1 .. 2
    /\ Len(position_history) \in 2 .. max_history - 1
    /\ LET before == Smoothed(SubSeq(position_history, 1,
                                     Len(position_history) - 1))
           movement == Movement(previous_position, before)
       IN  /\ Exceeds(movement, dynamic_thresh(last_confidence))
           /\ DirectionOf(movement) # current_direction

\* the frame is one on which the interpreter accepts a direction change
Accepts ==
    /\ call' = <<"detect_gestures", "hand">>
    /\ current_direction' # current_direction

\* C11: a frame that accepts a direction change leaves the cooldown counter
\* at max_cooldown = 4, and every later frame that starts with a positive
\* counter lowers it by exactly one, so that the counter reaches zero after
\* exactly four subsequent frames.
C11_CooldownLength ==
    [][ /\ Accepts => gesture_cooldown' = max_cooldown
        /\ (Frame /\ ~Accepts /\ gesture_cooldown > 0)
             => gesture_cooldown' = gesture_cooldown - 1 ]_vars

\* the gesture state GestureControl.__init__ leaves
FreshGesture ==
    /\ position_history = << >>
    /\ previous_position = << >>
    /\ current_direction = "NONE"
    /\ gesture_cooldown = 0

\* C12: once the detector has found no hand in more than max_no_hand_frames
\* (12) frames in a row, the gesture state is the freshly initialised one
\* (history empty, previous position None, current direction None,
\* cooldown 0) and stays so while no hand is seen; the hand that reappears
\* starts smoothing from an empty history.
C12_LossOfTrackingReset ==
    [][ /\ missed' > max_no_hand_frames => FreshGesture'
        /\ (missed > max_no_hand_frames /\ call' = <<"detect_gestures", "hand">>)
             => /\ Len(position_history') = 1
                /\ previous_position' = Smoothed(position_history')
                /\ current_direction' = "NONE"
                /\ gesture_cooldown' = 0 ]_vars

\* the detector found no hand for more than 13 frames in a row
C12_Witness ==
    /\ call = <<"detect_gestures", "no_hand">>
    /\ missed > max_no_hand_frames
    /\ no_hand_frames \in 1 .. 2
    /\ detected.direction = "NONE"
    /\ last_confidence = 0
    /\ FreshGesture

\* C13: a call of detect_gestures in which the detector throws returns
\* normally, with the direction that was current before the call and no
\* boost, on a frame with the error overlay, and leaves the current
\* direction of the interpreter unchanged.
C13_DetectionFailure ==
    [][ call' = <<"detect_gestures", "error">>
        => /\ detected'.error
           /\ detected'.direction = current_direction
           /\ ~detected'.is_pinching
           /\ current_direction' = current_direction ]_vars

\* the detector threw after a direction had been decided, in the cooldown
C13_Witness ==
    /\ call = <<"detect_gestures", "error">>
    /\ detected.error
    /\ detected.direction = "DOWN"
    /\ current_direction = "DOWN"
    /\ gesture_cooldown = 3

-----------------------------------------------------------------------------
(* Properties of the application *)

\* C14: under every interleaving of the two threads, the snapshot the main
\* loop has when it leaves the locked block is the triple of the most
\* recent publish that was completed, or the null triple when there was
\* none: fields of two inferences are never mixed.
C14_AtomicSnapshot ==
    [][ (main_pc = "read_frame" /\ main_pc' = "apply")
        => snapshot' = published' ]_vars

\* the main loop read the first publish while the thread, done with the
\* second frame, waited for the lock
C14_Witness ==
    /\ call = <<"run", "read_frame">>
    /\ snapshot = published
    /\ snapshot.frame = 1
    /\ inference.frame = 2
    /\ inference.gesture # snapshot.gesture
    /\ worker_pc = "acquire"

\* C15: every iteration of the main loop that comes to the locked block
\* gets through it and on to the tick of the game, whether the thread
\* publishes often, rarely or never; as long as nothing was published the
\* snapshot is the null one (direction None, boost false, frame None).
C15_NonBlockingMainLoop ==
    /\ [](published = NullSnapshot => snapshot = NullSnapshot)
    /\ (main_pc = "acquire") ~> (main_pc = "update")

\* the game was ticked twice on null snapshots while the thread hung in its
\* first cap.read
C15_Witness ==
    /\ call = <<"update">>
    /\ ticks = 2
    /\ cap = "OPEN"
    /\ worker_pc = "read"
    /\ frames = 0
    /\ snapshot = NullSnapshot
    /\ published = NullSnapshot

\* Both threads keep running: every camera read and every call of the
\* detector returns.
SpecAppFair ==
    /\ SpecApp
    /\ WF_vars(NextMain)
    /\ WF_vars(NextWorker)

\* C16: once running is false, the gesture thread leaves its loop: every
\* path of an iteration (no camera, failed read, inference and publish,
\* exception) comes back to the test of the flag. This holds under fair
\* scheduling when every camera read and every inference returns.
C16_CooperativeShutdown ==
    [](~running => <>(worker_pc = "done"))

\* the thread, having published two frames, found the flag down and left
C16_Witness ==
    /\ call = <<"gesture_detection_loop", "check">>
    /\ worker_pc = "done"
    /\ ~running
    /\ published.frame = 2

\* the main loop is at its event step, without a camera, on a running game
NoCameraPlay ==
    /\ cap = "NONE"
    /\ worker_pc # "unstarted"
    /\ main_pc = "events"
    /\ running
    /\ ~game_over
    /\ ~paused

\* C17: without a camera the game is still playable from the keyboard:
\* whenever the main loop takes the events of a running game, there is a
\* key whose event changes the queued direction of the snake.
C17_NoCameraMode ==
    NoCameraPlay
    => \E k \in Keys :
          ENABLED (MainEvents(<<"KEYDOWN", k>>)
                   /\ next_direction' # next_direction)

\* the step ends a game: update() ran into a wall or into the snake
GameEnds == call' = <<"update">> /\ ~game_over /\ game_over'

\* the step is part of the shutdown that saves the score
Shutdown == call' = <<"cleanup">> \/ call' = <<"cleanup", "save">>

\* C18: high_score never decreases; it changes only in the tick that ends
\* a game or in cleanup, only when the score exceeds it, and it becomes
\* the score; whenever game_over is true, and after cleanup, high_score is
\* at least the score.
C18_HighScore ==
    [][ /\ high_score' >= high_score
        /\ high_score' # high_score
             => /\ GameEnds \/ Shutdown
                /\ score > high_score
                /\ high_score' = score
        /\ game_over' => high_score' >= score'
        /\ main_pc' = "done" => high_score' >= score' ]_vars

\* a game in progress with a score above the stored high score was cleaned
\* up
C18_Witness ==
    /\ call = <<"cleanup">>
    /\ ~game_over
    /\ score = 10
    /\ high_score = 10
    /\ high_score_file = [state |-> "json", high_score |-> <<1, 0>>]
    /\ ticks = 1

\* a game ended with a score above the high score
C18_WitnessGameOver ==
    /\ call = <<"update">>
    /\ game_over
    /\ score = 10
    /\ high_score = 10
    /\ ticks = 2

Distinct(snk) ==
    \A i, j \in 1 .. Len(snk) : i # j => snk[i] # snk[j]

\* C20: after any sequence of ticks, direction changes, pauses, restarts
\* and window resizes the snake has no duplicate cells, and its length
\* never decreases except in a restart.
C20_SnakeDistinct ==
    [][ /\ Distinct(snake')
        /\ Len(snake') < Len(snake)
             => (call' = <<"handle_restart", "UP">> /\ game_over) ]_vars

\* the snake ate a fruit and, the window widened to five columns, moved
\* into the fifth
C20_Witness ==
    /\ call = <<"update">>
    /\ grid_width = 5
    /\ Len(snake) = 4
    /\ snake[1] = <<4, 2>>
    /\ ticks = 2
    /\ Distinct(snake)

-----------------------------------------------------------------------------
(* Properties of the grid *)

\* every cell of the snake and the fruit lie in the grid
InGrid ==
    /\ \A i \in 1 .. Len(snake) : snake[i] \in Cells(grid_width, grid_height)
    /\ fruit \in Cells(grid_width, grid_height)

\* C21: in every reachable state, also after a window resize that changed
\* grid_width and grid_height without a restart, every cell of the snake
\* and the fruit cell (x, y) satisfy 0 <= x < grid_width and
\* 0 <= y < grid_height.
C21_GridBounds == InGrid

-----------------------------------------------------------------------------
(* The direction decision *)

\* wrist positions 0.12 apart, in hundredths of the frame: the mean of a
\* history of 2 .. max_history samples moves by 0.06 down to 0.02, on one
\* axis or on both
DecidePoints == { <<50, 50>>, <<62, 50>>, <<50, 62>> }

\* confidences on the bounds of the sensitivity bands, and above them
DecideConfidences == { 50, 80, 90 }

\* frames with a hand that does not pinch
DecideFrames ==
    { [kind |-> "hand", wrist |-> w, confidence |-> c, pinch |-> FALSE] :
        w \in DecidePoints, c \in DecideConfidences }

NextDecide ==
    /\ UNCHANGED <<appVars, resizes>>
    /\ \E f \in DecideFrames : detect_gestures(f)

\* the interpreter fed frames with a hand that moves in small steps
SpecDecide == InitStill /\ [][NextDecide]_vars

\* C22: in a frame with a hand, a previous smoothed position and cooldown
\* zero, a direction is decided if and only if the magnitude of the movement
\* (smoothed current minus smoothed previous) exceeds the threshold of the
\* confidence (0.02 above 0.8, 0.03 above 0.5, else 0.05); the axis with the
\* larger absolute component decides, RIGHT if dx > 0 else LEFT, and for the
\* vertical axis, ties included, DOWN if dy > 0 else UP; a decided direction
\* equal to the current one does not restart the cooldown.
C22_DirectionDecision ==
    [][ ( /\ call' = <<"detect_gestures", "hand">>
          /\ previous_position # << >>
          /\ gesture_cooldown = 0 )
        => LET dx == previous_position'[1] - previous_position[1]
               dy == previous_position'[2] - previous_position[2]
               hundredths == IF last_confidence' > 80 THEN 2
                             ELSE IF last_confidence' > 50 THEN 3
                             ELSE 5
               decided ==
                 dx * dx + dy * dy > hundredths * hundredths * Unit * Unit
               decision == IF dx * dx > dy * dy
                           THEN (IF dx > 0 THEN "RIGHT" ELSE "LEFT")
                           ELSE (IF dy > 0 THEN "DOWN" ELSE "UP")
           IN  IF decided
               THEN /\ current_direction' = decision
                    /\ detected'.direction = decision
                    /\ (decision = current_direction) = (gesture_cooldown' = 0)
               ELSE /\ current_direction' = current_direction
                    /\ gesture_cooldown' = 0 ]_vars

\* at confidence 0.8 the hand moved the mean by 0.06 to the right and 0.06
\* up, a tie of the axes over the threshold of 0.03: UP was decided
C22_Witness ==
    /\ call = <<"detect_gestures", "hand">>
    /\ last_confidence = 80
    /\ position_history = << <<50, 62>>, <<62, 50>> >>
    /\ previous_position = <<56 * Unit, 56 * Unit>>
    /\ current_direction = "UP"
    /\ gesture_cooldown = max_cooldown - 1

-----------------------------------------------------------------------------
(* The search of spawn_fruit *)

\* a game in which every tick eats the fruit and the 10% draw never brings
\* a power-up: the snake is steered up and right and grows until it dies or
\* fills the grid
NextFill ==
    /\ UNCHANGED <<gestureVars, appVars, missed, resizes>>
    /\ \/ update /\ score' > score /\ power_ups' = << >>
       \/ \E d \in MealDirections : change_direction(d)

SpecFill == InitFresh /\ [][NextFill]_vars

\* the next tick moves the head onto the fruit
Eats ==
    /\ ~Frozen
    /\ ~(~wrap_around /\ HitsWall(Moved, grid_width, grid_height))
    /\ ~HitsSelf(NewHead, snake)
    /\ NewHead = fruit

\* C23: in every reachable state in which spawn_fruit is called, the search
\* for a cell ends, with the fruit on a cell that neither the snake nor an
\* active power-up occupies, so that every call of update() completes: the
\* tick that eats the fruit finds a cell for the next one.
C23_RespawnTerminates ==
    Eats => FruitCells(GrowSnake(snake, NewHead), power_ups,
                       grid_width, grid_height) # {}

-----------------------------------------------------------------------------
(* More properties of the game engine *)

\* C24: in every reachable state next_direction is not the opposite of
\* direction, so that a tick never reverses the active direction of the
\* tick before it in the same game, however many calls of change_direction
\* come between the two.
C24_NoReversal ==
    [][ /\ next_direction' # Opposite(direction')
        /\ Tick => direction' # Opposite(direction) ]_vars

\* the snake turned UP in a tick, LEFT was queued, and DOWN was requested
C24_Witness ==
    /\ call = <<"change_direction", "DOWN">>
    /\ direction = "UP"
    /\ next_direction = "LEFT"
    /\ ticks >= 1
    /\ ~Frozen

\* the fruit is off the snake and off every power-up, and no power-up lies
\* on the snake
Separated ==
    /\ fruit \notin SnakeCells(snake)
    /\ ~OnPowerUp(fruit, power_ups)
    /\ \A i \in 1 .. Len(power_ups) : power_ups[i].pos \notin SnakeCells(snake)

\* C25: in every reachable state, not only when something spawns, the fruit
\* cell is no cell of the snake and no cell of an active power-up, and no
\* active power-up lies on a cell of the snake; hence no tick consumes both
\* the fruit and a power-up.
C25_FruitSeparation ==
    /\ []Separated
    /\ [][ Tick => ~( /\ Len(snake') = Len(snake) + 1
                      /\ score' > score + 10 ) ]_vars

\* a star spawned with the fourth fruit and the snake has eaten the fifth
C25_Witness ==
    /\ call = <<"update">>
    /\ score = 50
    /\ Len(snake) = 8
    /\ Len(power_ups) = 1
    /\ power_ups[1].lifespan = PowerUpLifespan - 2
    /\ last_power_up_score = 40
    /\ Separated

\* C26: in every reachable state the game is in exactly one of Running,
\* Paused and GameOver: paused and game_over are never both true, for any
\* interleaving of pause toggles, ticks and restarts.
C26_ExclusiveStates == ~(paused /\ game_over)

-----------------------------------------------------------------------------
(* Games played one after the other *)

\* update() ticks explored over the games of one run
MaxReplayTicks == 6

\* runs of meals as in NextMeal, with the restart once a game is over
NextReplay ==
    /\ UNCHANGED <<gestureVars, appVars, missed, resizes>>
    /\ \/ ticks < MaxReplayTicks /\ update /\ (score' > score \/ game_over')
       \/ \E d \in MealDirections : change_direction(d)
       \/ game_over /\ handle_restart("UP")

SpecReplay == InitFresh /\ [][NextReplay]_vars

\* the results of the call of spawn_fruit in the tick that eats the fruit
Respawns ==
    spawn_fruit(GrowSnake(snake, NewHead), power_ups, score + FruitPoints,
                last_power_up_score, grid_width, grid_height)

\* C27: after a restart the throttle of the power-ups starts over: in the
\* new game a power-up is eligible to spawn alongside the new fruit as soon
\* as the score of that game has reached 30, whatever the score at which
\* the last power-up of an earlier game spawned.
C27_ThrottleRestarts ==
    (Eats /\ score < 30 /\ score + 10 >= 30)
    => \E r \in Respawns : Len(r.power_ups) = Len(power_ups) + 1

-----------------------------------------------------------------------------
(* The restart gesture *)

\* update() ticks explored in the game that is steered by the hand
MaxRestartTicks == 4

\* the wrist in the frames of the camera, one after the other: the hand goes
\* down, left and up, and rests in between
HandPath ==
    << <<50, 50>>, <<50, 80>>, <<50, 80>>, <<50, 80>>, <<50, 80>>,
       <<20, 80>>, <<20, 80>>, <<20, 80>>, <<20, 80>>, <<20, 50>> >>

\* the frame the camera hands over after n frames were read before it
HandFrame(n) ==
    [kind |-> "hand", wrist |-> HandPath[n], confidence |-> 90,
     pinch |-> FALSE]

\* the cells the random draws of spawn_fruit come out on: in front of the
\* seed, and the corner
RestartFruits == { <<11, 15>>, <<0, 0>> }

\* the application with the first fruit in front of the snake
InitRestart ==
    /\ \E d \in Displays :
          screen = <<Max(MinScreenWidth, d[1]), Max(MinScreenHeight, d[2])>>
    /\ GameInitAt(<<screen[1] \div 2, screen[2]>>)
    /\ GestureInit
    /\ MainInit
    /\ high_score_file.state = "missing"
    /\ fruit = <<11, 15>>

\* both threads, with an empty event queue, a hand that follows HandPath in
\* front of the camera and a game that is due in every iteration of the
\* main loop
NextRestart ==
    /\ UNCHANGED resizes
    /\ \/ MainStart
       \/ MainEvents(<<"NONE">>)
       \/ MainAcquire
       \/ MainReadGesture
       \/ MainReadPinching
       \/ MainReadFrame
       \/ MainApply
       \/ MainBoost
       \/ (Frozen \/ ticks < MaxRestartTicks) /\ MainUpdate(TRUE)
       \/ MainDraw
       \/ WorkerCheck
       \/ \E got \in BOOLEAN :
             (got => frames < Len(HandPath)) /\ WorkerRead(got)
       \/ WorkerDetect(HandFrame(frames))
       \/ WorkerAcquire
       \/ WorkerWriteGesture
       \/ WorkerWritePinching
       \/ WorkerWriteFrame
    /\ fruit' \in RestartFruits

SpecRestart == InitRestart /\ [][NextRestart]_vars

\* the threads are scheduled: a step that stays possible is taken
SpecRestartFair == SpecRestart /\ WF_vars(NextRestart)

\* the camera has shown the last frame of HandPath and the gesture thread
\* is through with it: detect_gestures is not called again
HandGone == worker_pc = "check" /\ frames = Len(HandPath)

\* C28: once the game is over it stays over until the interpreter accepts an
\* UP decision made after the game ended; the direction that was the
\* current one when the game ended never restarts the game by itself.
\* Hence a game that is over when detect_gestures has been called for the
\* last time stays over for ever.
C28_RestartNeedsFreshGesture == [](game_over /\ HandGone => []game_over)

-----------------------------------------------------------------------------
(* Teardown *)

\* cleanup has released the camera or closed the detector
TornDown == cap = "RELEASED" \/ hands = "CLOSED"

====
